---- MODULE Spec2Model ----
(***************************************************************************)
(* Model of MLService (packages/server/src/mL/index.ts): the boot          *)
(* sequence prepare(), the per-project status table, the pipelines start() *)
(* export() and test(), and the control calls halt / pauseTraining /       *)
(* resumeTraining / updateCheckpoints.  Every `await` of the source is a   *)
(* point where the call is suspended; the code between two awaits runs as  *)
(* one step.                                                               *)
(*                                                                         *)
(* The collaborators Docker, PseudoDatabase, Trainer, Exporter and Tester  *)
(* are not part of the source excerpt; the little of them the service      *)
(* relies on is modelled from the design document and marked as such.      *)
(*                                                                         *)
(* Spec runs the boot sequence, the training pipeline and the control      *)
(* calls; SpecPipelines starts from a completed boot and runs export and   *)
(* test next to them.                                                      *)
(***************************************************************************)
EXTENDS Integers, Sequences, FiniteSets, TLC

\* ------------------------------------------------------------------ bounds
\* Total number of service calls (start, halt, ...) issued in one behaviour.
MaxCalls == 4
\* Number of service calls issued in one behaviour in which the export and test
\* pipelines run next to the training pipeline.
MaxPipelineCalls == 3
\* Largest configured epoch count of a project (hyperparameters.epochs).
MaxEpochs == 1

\* Project ids of the store.
Projects == {"p1", "p2"}

\* --------------------------------------------------------- program constants
DATASET_IMAGE == "gcperkins/wpilib-ml-dataset:latest"
METRICS_IMAGE == "gcperkins/wpilib-ml-metrics:latest"
EXPORT_IMAGE == "gcperkins/wpilib-ml-tflite:latest"
TRAIN_IMAGE == "gcperkins/wpilib-ml-train:latest"
TEST_IMAGE == "gcperkins/wpilib-ml-test:latest"

\* enum TrainerState, in declaration order (the enum's numeric order).
TrainerState ==
  << "NO_DOCKER_INSTALLED", "SCANNING_FOR_DOCKER", "SCANNING_PROJECTS",
     "DATASET_PULL", "METRICS_PULL", "TRAINER_PULL", "EXPORT_PULL",
     "TEST_PULL", "READY" >>

\* enum TrainingStatus.
TrainingStatus == {"NOT_TRAINING", "PREPARING", "TRAINING", "PAUSED"}

\* PullOrder with the export pull ahead of the train pull.
PullOrderSwapped ==
  << [state |-> "DATASET_PULL", image |-> DATASET_IMAGE],
     [state |-> "METRICS_PULL", image |-> METRICS_IMAGE],
     [state |-> "EXPORT_PULL",  image |-> EXPORT_IMAGE],
     [state |-> "TRAINER_PULL", image |-> TRAIN_IMAGE],
     [state |-> "TEST_PULL",    image |-> TEST_IMAGE] >>

\* The pulls of prepare() in program order: the readiness state assigned just
\* before each pull, and the image pulled.
PullOrder ==
  << [state |-> "DATASET_PULL", image |-> DATASET_IMAGE],
     [state |-> "METRICS_PULL", image |-> METRICS_IMAGE],
     [state |-> "TRAINER_PULL", image |-> TRAIN_IMAGE],
     [state |-> "EXPORT_PULL",  image |-> EXPORT_IMAGE],
     [state |-> "TEST_PULL",    image |-> TEST_IMAGE] >>

Images == {PullOrder[i].image : i \in 1..Len(PullOrder)}

\* null container handle (containerIDs.train = null).
NoHandle == 0
Handles == 1..MaxCalls

\* ------------------------------------------------------------------- state
VARIABLES
  trainer_state,  \* MLService.trainer_state
  status,         \* MLService.status : id -> ProjectStatus (exists = FALSE: no entry)
  preparePc,      \* position of prepare(): the await it is suspended at
  pull,           \* Docker: image -> "none" | "inflight" | "done" | "failed"
  pullLog,        \* Docker: the images whose pull was requested, in order
  readinessLog,   \* history of the values trainer_state has taken
  db,             \* PseudoDatabase: id -> project record (exists = FALSE: absent)
  disk,           \* latest checkpoint epoch in the project's training directory
  containers,     \* Docker: handle -> [state, id]; state is "none", "running",
                  \* "paused", "killed" or "exited", id the project trained
  startT,         \* the start(id) call of each project
  haltT,          \* the halt(id) call of each project
  pauseT,         \* the pauseTraining(id) call of each project
  resumeT,        \* the resumeTraining(id) call of each project
  pollT,          \* the updateCheckpoints(id) call of each project
  expT,           \* the export(id, checkpointNumber, name) calls in flight
  testT,          \* the test(testName, projectID, ...) call of each project
  inUse,          \* Exporter: the "in use by export" mark of each checkpoint
  budget,         \* callers: the number of service calls they will issue
  ncalls          \* number of service calls issued so far

vars ==
  << trainer_state, status, preparePc, pull, pullLog, readinessLog, db, disk,
     containers, startT, haltT, pauseT, resumeT, pollT, expT, testT, inUse,
     budget, ncalls >>

bootVars == << trainer_state, preparePc, pull, pullLog, readinessLog >>
taskVars == << startT, haltT, pauseT, resumeT, pollT >>
pipeVars == << expT, testT, inUse, budget >>

\* ------------------------------------------------------------ status table
NoStatus ==
  [exists |-> FALSE, trainingStatus |-> "NOT_TRAINING", currentEpoch |-> 0,
   lastEpoch |-> 0]

\* `checkpoints`: the latest checkpoint epoch recorded on the project record.
NoProject == [exists |-> FALSE, epochs |-> 0, train |-> NoHandle, checkpoints |-> 0]

\* addStatus with the two epoch fields interchanged.
addStatusSwapped(st, id, project) ==
  [st EXCEPT ![id] =
     [exists |-> TRUE, trainingStatus |-> "NOT_TRAINING",
      currentEpoch |-> project.epochs, lastEpoch |-> 0]]

\* addStatus(project): this.status[project.id] = {NOT_TRAINING, 0, epochs}
addStatus(st, id, project) ==
  [st EXCEPT ![id] =
     [exists |-> TRUE, trainingStatus |-> "NOT_TRAINING", currentEpoch |-> 0,
      lastEpoch |-> project.epochs]]

\* updateState writing the new state to every record of the table.
updateStateEvery(st, id, newState) ==
  [x \in DOMAIN st |-> [st[x] EXCEPT !.trainingStatus = newState]]

\* updateState(id, newState): this.status[id].trainingStatus = newState
updateState(st, id, newState) == [st EXCEPT ![id].trainingStatus = newState]

\* updateStep(id, newStep): this.status[id].currentEpoch = newStep
updateStep(st, id, newStep) == [st EXCEPT ![id].currentEpoch = newStep]

\* updateLastStep(id, newLast): this.status[id].lastEpoch = newLast
updateLastStep(st, id, newLast) == [st EXCEPT ![id].lastEpoch = newLast]

\* ---------------------------------------------------------------- prepare
\* Object.values(database).forEach(project => this.addStatus(project))
RECURSIVE ScanProjects(_, _)
ScanProjects(st, ids) ==
  IF ids = {} THEN st
  ELSE LET id == CHOOSE x \in ids : TRUE
       IN ScanProjects(addStatus(st, id, db[id]), ids \ {id})

\* Assigning trainer_state, with the history kept for the readiness claims.
SetTrainerState(s) ==
  /\ trainer_state' = s
  /\ readinessLog' = Append(readinessLog, s)

\* Docker.pull(image) is called: the request is handed to the runtime.
RequestPull(image) ==
  /\ pull' = [pull EXCEPT ![image] = "inflight"]
  /\ pullLog' = Append(pullLog, image)

\* PrepareProbe without the `return` of line 58.
PrepareProbeNoReturn ==
  /\ preparePc = "testDaemon"
  /\ \E alive \in BOOLEAN :
       /\ SetTrainerState(IF alive THEN "SCANNING_PROJECTS" ELSE "NO_DOCKER_INSTALLED")
       /\ preparePc' = "retrieveDatabase"
  /\ UNCHANGED << pipeVars, status, pull, pullLog, db, disk, containers,
                 taskVars, ncalls >>

\* lines 54-62: `await Docker.testDaemon()` settles.
PrepareProbe ==
  /\ preparePc = "testDaemon"
  /\ \E alive \in BOOLEAN :
       IF ~alive
         THEN /\ SetTrainerState("NO_DOCKER_INSTALLED")
              /\ preparePc' = "returned"
         ELSE /\ SetTrainerState("SCANNING_PROJECTS")
              /\ preparePc' = "retrieveDatabase"
  /\ UNCHANGED << pipeVars, status, pull, pullLog, db, disk, containers,
                 taskVars, ncalls >>

\* PrepareScan with the five pulls requested together.
PrepareScanParallel ==
  /\ preparePc = "retrieveDatabase"
  /\ status' = ScanProjects(status, {id \in Projects : db[id].exists})
  /\ SetTrainerState(PullOrder[1].state)
  /\ pull' = [i \in Images |-> "inflight"]
  /\ pullLog' = [i \in 1..Len(PullOrder) |-> PullOrder[i].image]
  /\ preparePc' = "pull1"
  /\ UNCHANGED << pipeVars, db, disk, containers, taskVars, ncalls >>

\* lines 62-66: `await PseudoDatabase.retrieveDatabase()` settles; every project
\* of the database gets a status record, then the first pull is requested.
PrepareScan ==
  /\ preparePc = "retrieveDatabase"
  /\ status' = ScanProjects(status, {id \in Projects : db[id].exists})
  /\ SetTrainerState(PullOrder[1].state)
  /\ RequestPull(PullOrder[1].image)
  /\ preparePc' = "pull1"
  /\ UNCHANGED << pipeVars, db, disk, containers, taskVars, ncalls >>

PullPc(i) == IF i = 1 THEN "pull1" ELSE IF i = 2 THEN "pull2"
             ELSE IF i = 3 THEN "pull3" ELSE IF i = 4 THEN "pull4" ELSE "pull5"

\* PreparePulled with a rejected pull swallowed: the sequence goes on.
PreparePulledAnyway(i) ==
  /\ preparePc = PullPc(i)
  /\ \E ok \in BOOLEAN :
       LET r == IF ok THEN "done" ELSE "failed" IN
       IF i < Len(PullOrder)
         THEN /\ SetTrainerState(PullOrder[i + 1].state)
              /\ pull' = [pull EXCEPT ![PullOrder[i].image] = r,
                                      ![PullOrder[i + 1].image] = "inflight"]
              /\ pullLog' = Append(pullLog, PullOrder[i + 1].image)
              /\ preparePc' = PullPc(i + 1)
         ELSE /\ SetTrainerState("READY")
              /\ pull' = [pull EXCEPT ![PullOrder[i].image] = r]
              /\ preparePc' = "returned"
              /\ UNCHANGED pullLog
  /\ UNCHANGED << pipeVars, status, db, disk, containers, taskVars, ncalls >>

\* lines 66-82: `await Docker.pull(image i)` settles.  On success the next
\* readiness state is assigned and the next pull requested (READY after the
\* last one); a rejected pull rejects prepare() at that await.
PreparePulled(i) ==
  /\ preparePc = PullPc(i)
  /\ \E ok \in BOOLEAN :
       IF ~ok
         THEN /\ pull' = [pull EXCEPT ![PullOrder[i].image] = "failed"]
              /\ preparePc' = "rejected"
              /\ UNCHANGED << trainer_state, readinessLog, pullLog >>
         ELSE IF i < Len(PullOrder)
           THEN /\ SetTrainerState(PullOrder[i + 1].state)
                /\ pull' = [pull EXCEPT ![PullOrder[i].image] = "done",
                                        ![PullOrder[i + 1].image] = "inflight"]
                /\ pullLog' = Append(pullLog, PullOrder[i + 1].image)
                /\ preparePc' = PullPc(i + 1)
           ELSE /\ SetTrainerState("READY")
                /\ pull' = [pull EXCEPT ![PullOrder[i].image] = "done"]
                /\ preparePc' = "returned"
                /\ UNCHANGED pullLog
  /\ UNCHANGED << pipeVars, status, db, disk, containers, taskVars, ncalls >>

prepare == PrepareProbe \/ PrepareScan \/ \E i \in 1..Len(PullOrder) : PreparePulled(i)

\* ------------------------------------------------- collaborators (contracts)
\* PseudoDatabase.retrieveProject(id): the record of the store at the moment
\* the read completes; the caller resumes in the same turn of the event loop.
retrieveProject(id) == db[id]

\* PseudoDatabase.pushProject(project): the record replaces the stored one.
pushProject(store, id, project) == [store EXCEPT ![id] = project]

\* A project is added to the store by the rest of the server.
CreateProject(id) ==
  /\ ~db[id].exists
  /\ \E e \in 1..MaxEpochs :
       db' = [db EXCEPT ![id] = [exists |-> TRUE, epochs |-> e, train |-> NoHandle, checkpoints |-> 0]]
  /\ UNCHANGED << pipeVars, bootVars, status, disk, containers, taskVars, ncalls >>

NoContainer == [state |-> "none", id |-> "none"]

\* What the runtime does with a request on container h.  A request the
\* container's state admits takes effect and completes; any other request
\* changes nothing, and completes or is rejected (ok).
DockerKill(cs, h) ==
  IF cs[h].state \in {"running", "paused"} THEN [cs EXCEPT ![h].state = "killed"] ELSE cs
DockerPause(cs, h) ==
  IF cs[h].state = "running" THEN [cs EXCEPT ![h].state = "paused"] ELSE cs
DockerResume(cs, h) ==
  IF cs[h].state = "paused" THEN [cs EXCEPT ![h].state = "running"] ELSE cs

\* The outcomes of a runtime request that maps cs to cs2: completion when it
\* took effect, completion or rejection when it did not.
Outcomes(cs, cs2) == IF cs2 # cs THEN {TRUE} ELSE BOOLEAN

\* The callers of the service issue calls once the boot sequence has ended in
\* READY (the design's precondition of every pipeline method; the methods
\* themselves do not test it).
Callable == trainer_state = "READY" /\ ncalls < budget

\* ------------------------------------------------------------ call records
\* A call record keeps the outcome of the last call until the next one; `tick`
\* flips at every call, so that a call is a change of the record.
IdleStart ==
  [pc |-> "idle", project |-> NoProject, h |-> NoHandle, result |-> "none",
   failedAt |-> "none", steps |-> << >>, obs |-> << >>, alone |-> TRUE,
   tick |-> FALSE]

\* `h`: the container the call addressed; `effect`: the runtime acted on it;
\* `ok`: the runtime call completed (was not rejected); `raced`: the control
\* calls on the same project that awaited the runtime while this one did.
IdleCtl ==
  [pc |-> "idle", h |-> NoHandle, effect |-> FALSE, ok |-> TRUE, result |-> "none",
   raced |-> {}, tick |-> FALSE]

IdlePoll == [pc |-> "idle", result |-> "none", tick |-> FALSE]

\* The record of a control call that has just been made.
CtlCall(cT, id) ==
  [cT EXCEPT ![id] = [IdleCtl EXCEPT !.pc = "retrieveProject", !.tick = ~cT[id].tick]]

\* A control call on id awaits the runtime.
AtRuntime(cT, id) == cT[id].pc \notin {"idle", "retrieveProject"}

\* Call `op` on id reached the runtime while call cT[id] awaits it.
Race(cT, id, op) ==
  IF AtRuntime(cT, id) THEN [cT EXCEPT ![id].raced = @ \cup {op}] ELSE cT

\* The control calls on id that await the runtime.
Racing(id) ==
  {op \in {"halt", "pause", "resume"} :
     \/ op = "halt" /\ AtRuntime(haltT, id)
     \/ op = "pause" /\ AtRuntime(pauseT, id)
     \/ op = "resume" /\ AtRuntime(resumeT, id)}

\* Some control call (halt, pause, resume) on id is suspended at an await.
CtlInFlight(id) ==
  haltT[id].pc # "idle" \/ pauseT[id].pc # "idle" \/ resumeT[id].pc # "idle"

\* The status seen by whoever reads getStatus(id) now.
Seen(st, id) == IF st[id].exists THEN st[id].trainingStatus ELSE "undefined"

\* History kept with a running start(id): the successive values of its
\* project's trainingStatus, and whether a control call overlapped the run.
Observe(sT, st, id) ==
  IF sT[id].pc # "idle" /\ sT[id].obs[Len(sT[id].obs)] # Seen(st, id)
    THEN [sT EXCEPT ![id].obs = Append(@, Seen(st, id))]
    ELSE sT

Disturb(sT, id) ==
  IF sT[id].pc # "idle" THEN [sT EXCEPT ![id].alone = FALSE] ELSE sT

\* ------------------------------------------------------------------ start
PrepSteps == << "writeParameterFile", "handleOldData", "moveDataToMount", "extractDataset" >>

\* start(iproject) is called: the record of a new run.
StartCall(id) ==
  [IdleStart EXCEPT !.pc = "retrieveProject", !.obs = << Seen(status, id) >>,
                    !.alone = ~CtlInFlight(id), !.tick = ~startT[id].tick]

\* The start(id) call settles with `result`; `at` is the step that rejected.
StartSettle(sT, id, result, at) ==
  [sT EXCEPT ![id].pc = "idle", ![id].result = result, ![id].failedAt = at,
             ![id].project = NoProject, ![id].h = NoHandle]

\* lines 86-92: start(iproject) is called and retrieveProject settles;
\* lastEpoch and PREPARING are written and Trainer.writeParameterFile is called.
StartRetrieved(id) ==
  /\ Callable
  /\ startT[id].pc = "idle"
  /\ ncalls' = ncalls + 1
  /\ LET project == retrieveProject(id)
         called == [startT EXCEPT ![id] = StartCall(id)]
     IN
       IF ~project.exists
         THEN /\ startT' = StartSettle(called, id, "NotFound", "retrieveProject")
              /\ UNCHANGED status
       ELSE IF ~status[id].exists
         THEN /\ startT' = StartSettle(called, id, "TypeError", "none")
              /\ UNCHANGED status
       ELSE /\ status' = updateState(updateLastStep(status, id, project.epochs),
                                     id, "PREPARING")
            /\ startT' = Observe([called EXCEPT ![id].pc = PrepSteps[1],
                                                ![id].project = project,
                                                ![id].steps = << PrepSteps[1] >>],
                                 status', id)
  /\ UNCHANGED << pipeVars, bootVars, db, disk, containers, haltT, pauseT,
                 resumeT, pollT >>

\* StartFail with a repair of the status record before the error is passed on.
StartFailRepair(id) ==
  /\ startT' = StartSettle(startT, id, "error", startT[id].pc)
  /\ status' = updateState(status, id, "NOT_TRAINING")
  /\ UNCHANGED << db, disk, containers >>

\* An awaited Trainer step of start(id) rejects: start rejects at that await.
StartFail(id) ==
  /\ startT' = StartSettle(startT, id, "error", startT[id].pc)
  /\ UNCHANGED << status, db, disk, containers >>

\* The call of the next Trainer step.
StartNext(sT, id, step) ==
  [sT EXCEPT ![id].pc = step, ![id].steps = Append(@, step)]

\* lines 92-94: writeParameterFile settles; handleOldData is called.
StartWroteParameters(id) ==
  /\ startT[id].pc = "writeParameterFile"
  /\ \E ok \in BOOLEAN :
       IF ~ok THEN StartFail(id)
       ELSE /\ startT' = StartNext(startT, id, "handleOldData")
            /\ UNCHANGED << status, db, disk, containers >>
  /\ UNCHANGED << pipeVars, bootVars, haltT, pauseT, resumeT, pollT, ncalls >>

\* lines 94-96: handleOldData settles (the data of an earlier run is gone);
\* moveDataToMount is called.
StartHandledOldData(id) ==
  /\ startT[id].pc = "handleOldData"
  /\ \E ok \in BOOLEAN :
       IF ~ok THEN StartFail(id)
       ELSE /\ startT' = StartNext(startT, id, "moveDataToMount")
            /\ disk' = [disk EXCEPT ![id] = 0]
            /\ UNCHANGED << status, db, containers >>
  /\ UNCHANGED << pipeVars, bootVars, haltT, pauseT, resumeT, pollT, ncalls >>

\* lines 96-98: moveDataToMount settles; extractDataset is called.
StartMovedData(id) ==
  /\ startT[id].pc = "moveDataToMount"
  /\ \E ok \in BOOLEAN :
       IF ~ok THEN StartFail(id)
       ELSE /\ startT' = StartNext(startT, id, "extractDataset")
            /\ UNCHANGED << status, db, disk, containers >>
  /\ UNCHANGED << pipeVars, bootVars, haltT, pauseT, resumeT, pollT, ncalls >>

\* TRAINING entered without the epoch reset of line 101.
EnterTrainingNoReset(st, id) == updateState(st, id, "TRAINING")

\* lines 100-101: updateState(ID, TRAINING); updateStep(ID, 0)
EnterTraining(st, id) == updateStep(updateState(st, id, "TRAINING"), id, 0)

\* lines 98-103: extractDataset settles; TRAINING and epoch 0 are written and
\* Trainer.trainModel is called.
StartExtracted(id) ==
  /\ startT[id].pc = "extractDataset"
  /\ \E ok \in BOOLEAN :
       IF ~ok THEN StartFail(id)
       ELSE /\ status' = EnterTraining(status, id)
            /\ startT' = Observe(StartNext(startT, id, "trainModel"), status', id)
            /\ UNCHANGED << db, disk, containers >>
  /\ UNCHANGED << pipeVars, bootVars, haltT, pauseT, resumeT, pollT, ncalls >>

\* Trainer.updateCheckpoints(id): the checkpoints on disk are recorded on the
\* stored project; the latest epoch is what the call reports.
RecordCheckpoints(store, id) == [store EXCEPT ![id].checkpoints = disk[id]]

\* A handle no container has had yet.
FreshHandle == CHOOSE h \in Handles :
  /\ containers[h].state = "none"
  /\ \A g \in Handles : g < h => containers[g].state # "none"

\* Trainer.trainModel, first half: the training container is created and
\* started and its handle saved on the project record.
TrainLaunch(id) ==
  /\ startT[id].pc = "trainModel"
  /\ \E ok \in BOOLEAN :
       IF ~ok THEN StartFail(id)
       ELSE /\ containers' = [containers EXCEPT ![FreshHandle] =
                                [state |-> "running", id |-> id]]
            /\ db' = [db EXCEPT ![id].train = FreshHandle]
            /\ startT' = [startT EXCEPT ![id].pc = "training", ![id].h = FreshHandle]
            /\ UNCHANGED << status, disk >>
  /\ UNCHANGED << pipeVars, bootVars, haltT, pauseT, resumeT, pollT, ncalls >>

\* The training container completes an epoch and writes its checkpoint; it
\* exits after the last configured epoch.
ContainerEpoch(h) ==
  /\ containers[h].state = "running"
  /\ LET id == containers[h].id IN
       /\ disk[id] < db[id].epochs
       /\ disk' = [disk EXCEPT ![id] = @ + 1]
       /\ containers' = IF disk[id] + 1 = db[id].epochs
                          THEN [containers EXCEPT ![h].state = "exited"]
                          ELSE containers
  /\ UNCHANGED << pipeVars, bootVars, status, db, taskVars, ncalls >>

\* lines 103-105: `await Trainer.trainModel(ID)` settles: it resolves when
\* the container has exited, resolves or rejects when the container was
\* killed, and may reject while the container is still there.
\* On resolution Trainer.updateCheckpoints is called, which records the
\* checkpoints found on disk on the stored project.
StartTrained(id) ==
  /\ startT[id].pc = "training"
  /\ \E ok \in BOOLEAN :
       /\ ok => containers[startT[id].h].state \in {"exited", "killed"}
       /\ ~ok => containers[startT[id].h].state # "exited"
       /\ IF ~ok THEN StartFail(id)
          ELSE /\ startT' = StartNext(startT, id, "updateCheckpoints")
               /\ db' = RecordCheckpoints(db, id)
               /\ UNCHANGED << status, disk, containers >>
  /\ UNCHANGED << pipeVars, bootVars, haltT, pauseT, resumeT, pollT, ncalls >>

\* lines 105-110: `await Trainer.updateCheckpoints(ID)` settles;
\* NOT_TRAINING is written, the handle of the fetched record cleared and the
\* record pushed to the store.
StartReconciled(id) ==
  /\ startT[id].pc = "updateCheckpoints"
  /\ \E ok \in BOOLEAN :
       IF ~ok THEN StartFail(id)
       ELSE /\ status' = updateState(status, id, "NOT_TRAINING")
            /\ db' = pushProject(db, id, [startT[id].project EXCEPT !.train = NoHandle])
            /\ startT' = StartSettle(Observe(startT, status', id), id,
                                     "training complete", "none")
            /\ UNCHANGED << disk, containers >>
  /\ UNCHANGED << pipeVars, bootVars, haltT, pauseT, resumeT, pollT, ncalls >>

start(id) ==
  \/ StartRetrieved(id) \/ StartWroteParameters(id)
  \/ StartHandledOldData(id) \/ StartMovedData(id) \/ StartExtracted(id)
  \/ TrainLaunch(id) \/ StartTrained(id) \/ StartReconciled(id)

\* ------------------------------------------------------------------- halt
CtlSettle(cT, id, result) == [cT EXCEPT ![id].pc = "idle", ![id].result = result]

\* halt without a handle resolving quietly instead of rejecting.
HaltNoJobResolved(called, id) == CtlSettle(called, id, "ok")

\* line 156: else return Promise.reject("no trainjob found")
HaltNoJob(called, id) == CtlSettle(called, id, "no trainjob found")

\* lines 154-156: halt(id) is called and retrieveProject settles (nothing is
\* read or written between the call and that moment); with a handle on the
\* record Docker.killContainer is called, without one the call is rejected.
HaltRetrieved(id) ==
  /\ Callable
  /\ haltT[id].pc = "idle"
  /\ ncalls' = ncalls + 1
  /\ startT' = Disturb(startT, id)
  /\ LET project == retrieveProject(id)
         called == CtlCall(haltT, id)
     IN
       IF ~project.exists
         THEN /\ haltT' = CtlSettle(called, id, "NotFound")
              /\ UNCHANGED << containers, pauseT, resumeT >>
       ELSE IF project.train # NoHandle
         THEN /\ containers' = DockerKill(containers, project.train)
              /\ \E ok \in Outcomes(containers, containers') :
                   haltT' = [called EXCEPT ![id].pc = "killContainer",
                                           ![id].h = project.train, ![id].ok = ok,
                                           ![id].effect = containers' # containers,
                                           ![id].raced = Racing(id)]
              /\ pauseT' = Race(pauseT, id, "halt")
              /\ resumeT' = Race(resumeT, id, "halt")
       ELSE /\ haltT' = HaltNoJob(called, id)
            /\ UNCHANGED << containers, pauseT, resumeT >>
  /\ UNCHANGED << pipeVars, bootVars, status, db, disk, pollT >>

\* lines 155-157: `await Docker.killContainer` settles; NOT_TRAINING is written.
HaltKilled(id) ==
  /\ haltT[id].pc = "killContainer"
  /\ IF ~haltT[id].ok
       THEN /\ haltT' = CtlSettle(haltT, id, "error")
            /\ UNCHANGED << status, startT >>
     ELSE IF ~status[id].exists
       THEN /\ haltT' = CtlSettle(haltT, id, "TypeError")
            /\ UNCHANGED << status, startT >>
     ELSE /\ status' = [status EXCEPT ![id].trainingStatus = "NOT_TRAINING"]
          /\ haltT' = CtlSettle(haltT, id, "ok")
          /\ startT' = Observe(startT, status', id)
  /\ UNCHANGED << pipeVars, bootVars, db, disk, containers, pauseT, resumeT,
                 pollT, ncalls >>

halt(id) == HaltRetrieved(id) \/ HaltKilled(id)

\* ---------------------------------------------------------- pauseTraining
\* The already-paused test left out.
PauseUnchecked(st, id) == FALSE

\* line 162: this.status[id].trainingStatus == TrainingStatus.PAUSED
AlreadyPaused(st, id) == st[id].trainingStatus = "PAUSED"

\* lines 161-164: pauseTraining(id) is called and retrieveProject settles;
\* the two checks, then Docker.pauseContainer is called.
PauseRetrieved(id) ==
  /\ Callable
  /\ pauseT[id].pc = "idle"
  /\ ncalls' = ncalls + 1
  /\ startT' = Disturb(startT, id)
  /\ LET project == retrieveProject(id)
         called == CtlCall(pauseT, id)
     IN
       IF ~project.exists
         THEN /\ pauseT' = CtlSettle(called, id, "NotFound")
              /\ UNCHANGED << containers, haltT, resumeT >>
       ELSE IF ~status[id].exists
         THEN /\ pauseT' = CtlSettle(called, id, "TypeError")
              /\ UNCHANGED << containers, haltT, resumeT >>
       ELSE IF AlreadyPaused(status, id)
         THEN /\ pauseT' = CtlSettle(called, id, "training is already paused")
              /\ UNCHANGED << containers, haltT, resumeT >>
       ELSE IF project.train = NoHandle
         THEN /\ pauseT' = CtlSettle(called, id, "no trainjob found")
              /\ UNCHANGED << containers, haltT, resumeT >>
       ELSE /\ containers' = DockerPause(containers, project.train)
            /\ \E ok \in Outcomes(containers, containers') :
                 pauseT' = [called EXCEPT ![id].pc = "pauseContainer",
                                          ![id].h = project.train, ![id].ok = ok,
                                           ![id].effect = containers' # containers,
                                          ![id].raced = Racing(id)]
            /\ haltT' = Race(haltT, id, "pause")
            /\ resumeT' = Race(resumeT, id, "pause")
  /\ UNCHANGED << pipeVars, bootVars, status, db, disk, pollT >>

\* lines 164-165: `await Docker.pauseContainer` settles; PAUSED is written.
PausePaused(id) ==
  /\ pauseT[id].pc = "pauseContainer"
  /\ IF ~pauseT[id].ok
       THEN /\ pauseT' = CtlSettle(pauseT, id, "error")
            /\ UNCHANGED << status, startT >>
     ELSE /\ status' = [status EXCEPT ![id].trainingStatus = "PAUSED"]
          /\ pauseT' = CtlSettle(pauseT, id, "ok")
          /\ startT' = Observe(startT, status', id)
  /\ UNCHANGED << pipeVars, bootVars, db, disk, containers, haltT, resumeT,
                 pollT, ncalls >>

pauseTraining(id) == PauseRetrieved(id) \/ PausePaused(id)

\* --------------------------------------------------------- resumeTraining
\* The not-paused test rejecting idle projects only.
NotPausedIdleOnly(st, id) == st[id].trainingStatus = "NOT_TRAINING"

\* line 170: this.status[id].trainingStatus != TrainingStatus.PAUSED
NotPaused(st, id) == st[id].trainingStatus # "PAUSED"

\* lines 169-172: resumeTraining(id) is called and retrieveProject settles;
\* the two checks, then Docker.resumeContainer is called.
ResumeRetrieved(id) ==
  /\ Callable
  /\ resumeT[id].pc = "idle"
  /\ ncalls' = ncalls + 1
  /\ startT' = Disturb(startT, id)
  /\ LET project == retrieveProject(id)
         called == CtlCall(resumeT, id)
     IN
       IF ~project.exists
         THEN /\ resumeT' = CtlSettle(called, id, "NotFound")
              /\ UNCHANGED << containers, haltT, pauseT >>
       ELSE IF ~status[id].exists
         THEN /\ resumeT' = CtlSettle(called, id, "TypeError")
              /\ UNCHANGED << containers, haltT, pauseT >>
       ELSE IF NotPaused(status, id)
         THEN /\ resumeT' = CtlSettle(called, id, "training is not paused")
              /\ UNCHANGED << containers, haltT, pauseT >>
       ELSE IF project.train = NoHandle
         THEN /\ resumeT' = CtlSettle(called, id, "no trainjob found")
              /\ UNCHANGED << containers, haltT, pauseT >>
       ELSE /\ containers' = DockerResume(containers, project.train)
            /\ \E ok \in Outcomes(containers, containers') :
                 resumeT' = [called EXCEPT ![id].pc = "resumeContainer",
                                           ![id].h = project.train, ![id].ok = ok,
                                           ![id].effect = containers' # containers,
                                           ![id].raced = Racing(id)]
            /\ haltT' = Race(haltT, id, "resume")
            /\ pauseT' = Race(pauseT, id, "resume")
  /\ UNCHANGED << pipeVars, bootVars, status, db, disk, pollT >>

\* lines 172-173: `await Docker.resumeContainer` settles; TRAINING is written.
ResumeResumed(id) ==
  /\ resumeT[id].pc = "resumeContainer"
  /\ IF ~resumeT[id].ok
       THEN /\ resumeT' = CtlSettle(resumeT, id, "error")
            /\ UNCHANGED << status, startT >>
     ELSE /\ status' = [status EXCEPT ![id].trainingStatus = "TRAINING"]
          /\ resumeT' = CtlSettle(resumeT, id, "ok")
          /\ startT' = Observe(startT, status', id)
  /\ UNCHANGED << pipeVars, bootVars, db, disk, containers, haltT, pauseT,
                 pollT, ncalls >>

resumeTraining(id) == ResumeRetrieved(id) \/ ResumeResumed(id)

\* ------------------------------------------------------ updateCheckpoints
PollSettle(id, result) ==
  [pollT EXCEPT ![id] = [pc |-> "idle", result |-> result, tick |-> ~pollT[id].tick]]

\* The reported epoch added to currentEpoch instead of replacing it.
PollWriteAdvance(st, id, currentStep) ==
  updateStep(st, id, st[id].currentEpoch + currentStep)

\* line 182: if (currentStep) this.updateStep(id, currentStep)
\* (0 stands for every falsy report: 0, undefined, null).
PollWrite(st, id, currentStep) ==
  IF currentStep # 0 THEN updateStep(st, id, currentStep) ELSE st

\* lines 181-183: updateCheckpoints(id) is called and Trainer.updateCheckpoints
\* reports the latest checkpoint epoch; a truthy value is written to
\* currentEpoch.
PollSettled(id) ==
  /\ Callable
  /\ ncalls' = ncalls + 1
  /\ \E ok \in BOOLEAN :
       LET currentStep == disk[id] IN
         IF ~ok \/ ~db[id].exists
           THEN /\ pollT' = PollSettle(id, "error")
                /\ UNCHANGED << status, db >>
         ELSE IF currentStep # 0 /\ ~status[id].exists
           THEN /\ pollT' = PollSettle(id, "TypeError")
                /\ db' = RecordCheckpoints(db, id)
                /\ UNCHANGED status
         ELSE /\ status' = PollWrite(status, id, currentStep)
              /\ db' = RecordCheckpoints(db, id)
              /\ pollT' = PollSettle(id, "ok")
  /\ UNCHANGED << pipeVars, bootVars, disk, containers, startT, haltT, pauseT, resumeT >>

updateCheckpoints(id) == PollSettled(id)

\* ----------------------------------------------------------------- export
\* The calls of export that can be in flight together.
ExportCalls == 1..2

\* Checkpoint numbers a caller may name.
Checkpoints == 1..MaxEpochs

ExportSteps ==
  << "locateCheckpoint", "createExport", "createDestinationDirectory",
     "updateCheckpointStatus(true)", "writeParameterFile", "exportCheckpoint",
     "saveExport", "updateCheckpointStatus(false)" >>

\* `steps`: how many of the Exporter steps the call has invoked.
IdleExport == [pc |-> "idle", id |-> "none", c |-> 0, steps |-> 0, result |-> "none"]

\* Exporter.locateCheckpoint: the checkpoint is on the project record.
CheckpointExists(id, c) == db[id].exists /\ c <= db[id].checkpoints

\* Exporter.updateCheckpointStatus(id, checkpointNumber, flag)
updateCheckpointStatus(marks, id, c, flag) == [marks EXCEPT ![id][c] = flag]

\* The export call k settles with `result`.
ExportSettle(k, result) == [expT EXCEPT ![k].pc = "idle", ![k].result = result]

\* The awaited Exporter step of call k rejects: export rejects at that await.
ExportFail(k) == expT' = ExportSettle(k, "error") /\ UNCHANGED inUse

\* The call of the next Exporter step.
ExportNext(k, i) == [expT EXCEPT ![k].pc = ExportSteps[i], ![k].steps = i]

\* The export call k awaits step i, which settles; on success the marks
\* become `marks` and the next step is called.
ExportStep(k, i, marks) ==
  /\ expT[k].pc = ExportSteps[i]
  /\ \E ok \in BOOLEAN :
       IF ~ok THEN ExportFail(k)
       ELSE expT' = ExportNext(k, i + 1) /\ inUse' = marks
  /\ UNCHANGED << bootVars, status, db, disk, containers, taskVars, testT, budget, ncalls >>

\* lines 113-116: export(id, checkpointNumber, name) is called and
\* locateCheckpoint settles; createExport is called.
ExportLocated(k, id, c) ==
  /\ Callable
  /\ expT[k].pc = "idle"
  /\ \A j \in ExportCalls : j < k => expT[j].pc # "idle"
  /\ ncalls' = ncalls + 1
  /\ LET called == [expT EXCEPT ![k] = [IdleExport EXCEPT !.id = id, !.c = c, !.steps = 1]]
     IN IF ~CheckpointExists(id, c)
          THEN expT' = [called EXCEPT ![k].result = "NotFound"]
          ELSE \E ok \in BOOLEAN :
                 IF ~ok THEN expT' = [called EXCEPT ![k].result = "error"]
                 ELSE expT' = [called EXCEPT ![k].pc = ExportSteps[2], ![k].steps = 2]
  /\ UNCHANGED << bootVars, status, db, disk, containers, taskVars, testT, inUse, budget >>

\* lines 116-118: createExport settles; createDestinationDirectory is called.
ExportCreated(k) == ExportStep(k, 2, inUse)

\* lines 118-120: createDestinationDirectory settles;
\* updateCheckpointStatus(id, checkpointNumber, true) is called.
ExportMadeDirectory(k) == ExportStep(k, 3, inUse)

\* lines 120-122: the mark is set; writeParameterFile is called.
ExportMarked(k) ==
  ExportStep(k, 4, updateCheckpointStatus(inUse, expT[k].id, expT[k].c, TRUE))

\* lines 122-124: writeParameterFile settles; exportCheckpoint (the export
\* container run) is called.
ExportWroteParameters(k) == ExportStep(k, 5, inUse)

\* lines 124-126: the container run completes; saveExport is called.
ExportRan(k) == ExportStep(k, 6, inUse)

\* lines 126-128: the export record is saved;
\* updateCheckpointStatus(id, checkpointNumber, false) is called.
ExportSaved(k) == ExportStep(k, 7, inUse)

\* lines 128-130: the mark is cleared; export returns "exported".
ExportUnmarked(k) ==
  /\ expT[k].pc = ExportSteps[8]
  /\ \E ok \in BOOLEAN :
       IF ~ok THEN ExportFail(k)
       ELSE /\ expT' = ExportSettle(k, "exported")
            /\ inUse' = updateCheckpointStatus(inUse, expT[k].id, expT[k].c, FALSE)
  /\ UNCHANGED << bootVars, status, db, disk, containers, taskVars, testT, budget, ncalls >>

export(k) ==
  \/ \E id \in Projects, c \in Checkpoints : ExportLocated(k, id, c)
  \/ ExportCreated(k) \/ ExportMadeDirectory(k) \/ ExportMarked(k)
  \/ ExportWroteParameters(k) \/ ExportRan(k) \/ ExportSaved(k) \/ ExportUnmarked(k)

\* ------------------------------------------------------------------- test
TestSteps ==
  << "createTest", "retrieveProject", "mountModel", "mountVideo",
     "writeParameterFile", "testModel", "saveOutputVid", "saveTest" >>

IdleTest == [pc |-> "idle", steps |-> 0, result |-> "none"]

TestSettle(id, result) == [testT EXCEPT ![id].pc = "idle", ![id].result = result]

\* The test call on project id awaits step i, which settles; on success the
\* next step is called, after the last one test returns "testing complete".
TestStep(id, i) ==
  /\ testT[id].pc = TestSteps[i]
  /\ \E ok \in BOOLEAN :
       IF ~ok THEN testT' = TestSettle(id, "error")
       ELSE IF i = Len(TestSteps) THEN testT' = TestSettle(id, "testing complete")
       ELSE testT' = [testT EXCEPT ![id].pc = TestSteps[i + 1], ![id].steps = i + 1]
  /\ UNCHANGED << bootVars, status, db, disk, containers, taskVars, expT, inUse, budget,
                 ncalls >>

\* lines 133-136: test(testName, projectID, exportID, videoID) is called and
\* createTest settles; retrieveProject is called.
TestCreated(id) ==
  /\ Callable
  /\ testT[id].pc = "idle"
  /\ ncalls' = ncalls + 1
  /\ \E ok \in BOOLEAN :
       testT' = [testT EXCEPT ![id] =
                   IF ok THEN [pc |-> TestSteps[2], steps |-> 2, result |-> "none"]
                   ELSE [pc |-> "idle", steps |-> 1, result |-> "error"]]
  /\ UNCHANGED << bootVars, status, db, disk, containers, taskVars, expT, inUse, budget >>

\* lines 136-138: retrieveProject settles; mountModel is called with the
\* project's directory (a missing project is a failed step).
TestRetrieved(id) ==
  /\ testT[id].pc = TestSteps[2]
  /\ IF ~retrieveProject(id).exists
       THEN testT' = TestSettle(id, "NotFound")
       ELSE testT' = [testT EXCEPT ![id].pc = TestSteps[3], ![id].steps = 3]
  /\ UNCHANGED << bootVars, status, db, disk, containers, taskVars, expT, inUse, budget,
                 ncalls >>

\* lines 138-150: the remaining steps, each awaited before the next.
TestMountedModel(id) == TestStep(id, 3)
TestMountedVideo(id) == TestStep(id, 4)
TestWroteParameters(id) == TestStep(id, 5)
TestRan(id) == TestStep(id, 6)
TestSavedVideo(id) == TestStep(id, 7)
TestSaved(id) == TestStep(id, 8)

test(id) ==
  \/ TestCreated(id) \/ TestRetrieved(id) \/ TestMountedModel(id)
  \/ TestMountedVideo(id) \/ TestWroteParameters(id) \/ TestRan(id)
  \/ TestSavedVideo(id) \/ TestSaved(id)

\* ---------------------------------------------------------- specification
\* constructor (lines 47-51): SCANNING_FOR_DOCKER, an empty status table, and
\* prepare() run up to its first await.  The store holds any set of projects,
\* none with a training container.
Init ==
  /\ trainer_state = "SCANNING_FOR_DOCKER"
  /\ status = [id \in Projects |-> NoStatus]
  /\ preparePc = "testDaemon"
  /\ pull = [i \in Images |-> "none"]
  /\ pullLog = << >>
  /\ readinessLog = << "SCANNING_FOR_DOCKER" >>
  /\ db \in [Projects -> {NoProject} \cup
               {[exists |-> TRUE, epochs |-> e, train |-> NoHandle, checkpoints |-> 0] : e \in 1..MaxEpochs}]
  /\ disk = [id \in Projects |-> 0]
  /\ containers = [h \in Handles |-> NoContainer]
  /\ startT = [id \in Projects |-> IdleStart]
  /\ haltT = [id \in Projects |-> IdleCtl]
  /\ pauseT = [id \in Projects |-> IdleCtl]
  /\ resumeT = [id \in Projects |-> IdleCtl]
  /\ pollT = [id \in Projects |-> IdlePoll]
  /\ expT = [k \in ExportCalls |-> IdleExport]
  /\ testT = [id \in Projects |-> IdleTest]
  /\ inUse = [id \in Projects |-> [c \in Checkpoints |-> FALSE]]
  /\ budget = MaxCalls
  /\ ncalls = 0

Next ==
  \/ PrepareProbe
  \/ PrepareScan
  \/ \E i \in 1..Len(PullOrder) : PreparePulled(i)
  \/ \E id \in Projects : CreateProject(id)
  \/ \E id \in Projects : StartRetrieved(id)
  \/ \E id \in Projects : StartWroteParameters(id)
  \/ \E id \in Projects : StartHandledOldData(id)
  \/ \E id \in Projects : StartMovedData(id)
  \/ \E id \in Projects : StartExtracted(id)
  \/ \E id \in Projects : TrainLaunch(id)
  \/ \E h \in Handles : ContainerEpoch(h)
  \/ \E id \in Projects : StartTrained(id)
  \/ \E id \in Projects : StartReconciled(id)
  \/ \E id \in Projects : HaltRetrieved(id)
  \/ \E id \in Projects : HaltKilled(id)
  \/ \E id \in Projects : PauseRetrieved(id)
  \/ \E id \in Projects : PausePaused(id)
  \/ \E id \in Projects : ResumeRetrieved(id)
  \/ \E id \in Projects : ResumeResumed(id)
  \/ \E id \in Projects : PollSettled(id)

Spec == Init /\ [][Next]_vars

\* The service after a boot that ended in READY, over a store whose projects
\* may have checkpoints from earlier runs; the export and test pipelines run
\* next to the training pipeline and the control calls.
InitPipelines ==
  /\ trainer_state = "READY"
  /\ preparePc = "returned"
  /\ pull = [i \in Images |-> "done"]
  /\ pullLog = [i \in 1..Len(PullOrder) |-> PullOrder[i].image]
  /\ readinessLog = << "SCANNING_FOR_DOCKER", "SCANNING_PROJECTS" >>
                      \o [i \in 1..Len(PullOrder) |-> PullOrder[i].state]
                      \o << "READY" >>
  /\ db \in [Projects -> {NoProject} \cup
               {[exists |-> TRUE, epochs |-> e, train |-> NoHandle, checkpoints |-> n] :
                  e \in 1..MaxEpochs, n \in 0..MaxEpochs}]
  /\ disk = [id \in Projects |-> db[id].checkpoints]
  /\ status = ScanProjects([id \in Projects |-> NoStatus],
                           {id \in Projects : db[id].exists})
  /\ containers = [h \in Handles |-> NoContainer]
  /\ startT = [id \in Projects |-> IdleStart]
  /\ haltT = [id \in Projects |-> IdleCtl]
  /\ pauseT = [id \in Projects |-> IdleCtl]
  /\ resumeT = [id \in Projects |-> IdleCtl]
  /\ pollT = [id \in Projects |-> IdlePoll]
  /\ expT = [k \in ExportCalls |-> IdleExport]
  /\ testT = [id \in Projects |-> IdleTest]
  /\ inUse = [id \in Projects |-> [c \in Checkpoints |-> FALSE]]
  /\ budget = MaxPipelineCalls
  /\ ncalls = 0

NextPipelines ==
  \/ \E id \in Projects : StartRetrieved(id)
  \/ \E id \in Projects : StartWroteParameters(id)
  \/ \E id \in Projects : StartHandledOldData(id)
  \/ \E id \in Projects : StartMovedData(id)
  \/ \E id \in Projects : StartExtracted(id)
  \/ \E id \in Projects : TrainLaunch(id)
  \/ \E h \in Handles : ContainerEpoch(h)
  \/ \E id \in Projects : StartTrained(id)
  \/ \E id \in Projects : StartReconciled(id)
  \/ \E id \in Projects : HaltRetrieved(id)
  \/ \E id \in Projects : HaltKilled(id)
  \/ \E id \in Projects : PauseRetrieved(id)
  \/ \E id \in Projects : PausePaused(id)
  \/ \E id \in Projects : ResumeRetrieved(id)
  \/ \E id \in Projects : ResumeResumed(id)
  \/ \E id \in Projects : PollSettled(id)
  \/ \E k \in ExportCalls, id \in Projects, c \in Checkpoints : ExportLocated(k, id, c)
  \/ \E k \in ExportCalls : ExportCreated(k)
  \/ \E k \in ExportCalls : ExportMadeDirectory(k)
  \/ \E k \in ExportCalls : ExportMarked(k)
  \/ \E k \in ExportCalls : ExportWroteParameters(k)
  \/ \E k \in ExportCalls : ExportRan(k)
  \/ \E k \in ExportCalls : ExportSaved(k)
  \/ \E k \in ExportCalls : ExportUnmarked(k)
  \/ \E id \in Projects : TestCreated(id)
  \/ \E id \in Projects : TestRetrieved(id)
  \/ \E id \in Projects : TestMountedModel(id)
  \/ \E id \in Projects : TestMountedVideo(id)
  \/ \E id \in Projects : TestWroteParameters(id)
  \/ \E id \in Projects : TestRan(id)
  \/ \E id \in Projects : TestSavedVideo(id)
  \/ \E id \in Projects : TestSaved(id)

SpecPipelines == InitPipelines /\ [][NextPipelines]_vars

\* ================================================================ claims
\* The documented readiness order, in the names of enum TrainerState:
\* SCANNING_RUNTIME, SCANNING_PROJECTS, PULL_DATASET_IMAGE, PULL_METRICS_IMAGE,
\* PULL_TRAIN_IMAGE, PULL_EXPORT_IMAGE, PULL_TEST_IMAGE, READY.
DocumentedOrder ==
  << "SCANNING_FOR_DOCKER", "SCANNING_PROJECTS", "DATASET_PULL", "METRICS_PULL",
     "TRAINER_PULL", "EXPORT_PULL", "TEST_PULL", "READY" >>

\* The documented pull order: dataset, metrics, train, export, test.
DocumentedPulls ==
  << DATASET_IMAGE, METRICS_IMAGE, TRAIN_IMAGE, EXPORT_IMAGE, TEST_IMAGE >>

Prefix(s, n) == SubSeq(s, 1, n)

\* C3: while the probe has not failed, the values the readiness state has
\* taken are a prefix of the documented order (forward only, nothing skipped
\* or repeated), and when prepare() has returned after a successful probe and
\* five successful pulls they are exactly the documented sequence, up to READY.
C3_ReadinessOrder ==
  /\ trainer_state # "NO_DOCKER_INSTALLED" =>
       /\ Len(readinessLog) <= Len(DocumentedOrder)
       /\ readinessLog = Prefix(DocumentedOrder, Len(readinessLog))
       /\ trainer_state = readinessLog[Len(readinessLog)]
  /\ (preparePc = "returned" /\ trainer_state # "NO_DOCKER_INSTALLED") =>
       readinessLog = DocumentedOrder

C3_Witness ==
  /\ trainer_state = "READY"
  /\ readinessLog = DocumentedOrder
  /\ \A i \in Images : pull[i] = "done"

\* C4: once the probe has failed the readiness state is NO_DOCKER_INSTALLED
\* and stays so, no pull has been requested and no status record exists.
C4_NoRuntimeInv ==
  trainer_state = "NO_DOCKER_INSTALLED" =>
    /\ pullLog = << >>
    /\ \A i \in Images : pull[i] = "none"
    /\ \A id \in Projects : ~status[id].exists

C4_NoRuntime ==
  /\ []C4_NoRuntimeInv
  /\ [][trainer_state = "NO_DOCKER_INSTALLED" => trainer_state' = "NO_DOCKER_INSTALLED"]_vars

C4_Witness ==
  /\ trainer_state = "NO_DOCKER_INSTALLED"
  /\ preparePc = "returned"
  /\ \A id \in Projects : db[id].exists

\* C5: when the pull of the i-th image has failed, the readiness state is the
\* pulling state of that image (so not READY) and stays there, exactly the
\* first i images have been requested, each once, and no later image is
\* requested; an image is never requested twice.
PullFailedAt(i) == pull[DocumentedPulls[i]] = "failed"

C5_FailedPullInv ==
  /\ \A i \in 1..Len(DocumentedPulls) :
       PullFailedAt(i) =>
         /\ trainer_state = DocumentedOrder[i + 2]
         /\ pullLog = Prefix(DocumentedPulls, i)
         /\ \A j \in (i + 1)..Len(DocumentedPulls) : pull[DocumentedPulls[j]] = "none"
  /\ \A m, n \in 1..Len(pullLog) : pullLog[m] = pullLog[n] => m = n

C5_FailedPull ==
  /\ []C5_FailedPullInv
  /\ [][(\E i \in 1..Len(DocumentedPulls) : PullFailedAt(i)) =>
          /\ trainer_state' = trainer_state
          /\ pullLog' = pullLog
          /\ pull' = pull]_vars

C5_Witness ==
  /\ PullFailedAt(3)
  /\ trainer_state = "TRAINER_PULL"
  /\ pull[DATASET_IMAGE] = "done"

\* ------------------------------------------------------------ start claims
FullRun == << "NOT_TRAINING", "PREPARING", "TRAINING", "NOT_TRAINING" >>

\* start(id) has returned "training complete" and no control call on the
\* project overlapped the run.
CleanRun(id) == startT[id].result = "training complete" /\ startT[id].alone

\* The step in which start(id) passes from PREPARING to TRAINING.
EntersTraining(id) == startT[id].pc = "extractDataset" /\ startT'[id].pc = "trainModel"

\* The step in which start(id) returns "training complete".
Completes(id) ==
  startT[id].pc = "updateCheckpoints" /\ startT'[id].result = "training complete"

StartFails(id) ==
  /\ startT[id].pc \notin {"idle", "retrieveProject"}
  /\ startT'[id].pc = "idle"
  /\ startT'[id].result = "error"

InPreparation(id) ==
  startT[id].pc \in {"writeParameterFile", "handleOldData", "moveDataToMount", "extractDataset"}

\* What a failed step of start(id) leaves behind: no further Trainer step is
\* called, the error is the call's outcome, and the status table, the store
\* and the containers are as they were.
FailedStartWritesNothing(id) ==
  /\ startT'[id].steps = startT[id].steps
  /\ startT'[id].failedAt = startT[id].pc
  /\ status' = status
  /\ db' = db
  /\ containers' = containers

LastReached(id) == IF InPreparation(id) THEN "PREPARING" ELSE "TRAINING"

\* C7 as stated: when an awaited step of start fails, no later step is
\* called, nothing is written, and the trainingStatus is PREPARING after a
\* failed preparation step and TRAINING after a failed training or
\* reconcile step.
C7_AnyFailure ==
  [][\A id \in Projects :
       StartFails(id) =>
         /\ FailedStartWritesNothing(id)
         /\ status'[id].trainingStatus = LastReached(id)]_vars

\* C7, amended: when an awaited step of start fails, no later step is called,
\* the error is the outcome, and the failed start writes nothing (status
\* record and train handle stay as they were); the status it leaves is
\* PREPARING or TRAINING as stated when no control call overlapped the run.
C7_FailedStart ==
  [][\A id \in Projects :
       StartFails(id) =>
         /\ FailedStartWritesNothing(id)
         /\ startT[id].alone => status'[id].trainingStatus = LastReached(id)]_vars

C7_Witness ==
  /\ startT["p1"].result = "error"
  /\ startT["p1"].failedAt = "extractDataset"
  /\ startT["p1"].steps = PrepSteps
  /\ status["p1"].trainingStatus = "PREPARING"
  /\ startT["p2"].result = "error"
  /\ startT["p2"].failedAt = "updateCheckpoints"
  /\ status["p2"].trainingStatus = "TRAINING"
  /\ db["p2"].train # NoHandle

\* ---------------------------------------------------------- control claims
\* The step in which a control call on id is made.
Called(cT, id) == cT'[id].tick # cT[id].tick

\* The call's own step changes neither the status table nor any container,
\* and hands nothing to the runtime.
RejectedUntouched(cT, id, reason) ==
  /\ cT'[id].pc = "idle"
  /\ cT'[id].result = reason
  /\ cT'[id].h = NoHandle
  /\ status' = status
  /\ containers' = containers

\* C8: halt(id) on a stored project without a train handle settles in its
\* first step with "no trainjob found", having called nothing on the runtime
\* and changed no status; with a handle it asks the runtime to kill exactly
\* that container, which is not alive afterwards, and the completed kill is
\* followed by the write of NOT_TRAINING.
C8_Halt ==
  [][\A id \in Projects :
       /\ (Called(haltT, id) /\ db[id].exists /\ db[id].train = NoHandle) =>
            RejectedUntouched(haltT, id, "no trainjob found")
       /\ (Called(haltT, id) /\ db[id].exists /\ db[id].train # NoHandle) =>
            /\ haltT'[id].pc = "killContainer"
            /\ haltT'[id].h = db[id].train
            /\ containers'[db[id].train].state \notin {"running", "paused"}
            /\ \A h \in Handles : h # db[id].train => containers'[h] = containers[h]
            /\ status' = status
       /\ (haltT[id].pc = "killContainer" /\ haltT[id].ok /\ haltT'[id].pc = "idle") =>
            /\ haltT'[id].result = "ok"
            /\ status'[id].trainingStatus = "NOT_TRAINING"]_vars

C8_Witness ==
  /\ haltT["p1"].result = "ok"
  /\ containers[haltT["p1"].h].state = "killed"
  /\ status["p1"].trainingStatus = "NOT_TRAINING"
  /\ haltT["p2"].result = "no trainjob found"
  /\ status["p2"].exists

\* C9: pauseTraining(id) on a project whose trainingStatus is PAUSED settles
\* in its first step with "training is already paused", having called nothing
\* on the runtime and changed no status.
C9_PauseWhenPaused ==
  [][\A id \in Projects :
       (Called(pauseT, id) /\ db[id].exists /\ status[id].exists
          /\ status[id].trainingStatus = "PAUSED") =>
         RejectedUntouched(pauseT, id, "training is already paused")]_vars

C9_Witness ==
  \E id \in Projects :
    /\ pauseT[id].result = "training is already paused"
    /\ status[id].trainingStatus = "PAUSED"
    /\ db[id].train # NoHandle
    /\ containers[db[id].train].state = "paused"

\* C10: resumeTraining(id) on a project whose trainingStatus is NOT_TRAINING,
\* PREPARING or TRAINING settles in its first step with "training is not
\* paused", having called nothing on the runtime and changed no status; on a
\* PAUSED project without a train handle it settles with "no trainjob found".
C10_ResumeWhenNotPaused ==
  [][\A id \in Projects :
       /\ (Called(resumeT, id) /\ db[id].exists /\ status[id].exists
             /\ status[id].trainingStatus \in {"NOT_TRAINING", "PREPARING", "TRAINING"}) =>
            RejectedUntouched(resumeT, id, "training is not paused")
       /\ (Called(resumeT, id) /\ db[id].exists /\ status[id].exists
             /\ status[id].trainingStatus = "PAUSED" /\ db[id].train = NoHandle) =>
            RejectedUntouched(resumeT, id, "no trainjob found")]_vars

C10_Witness ==
  /\ resumeT["p1"].result = "training is not paused"
  /\ status["p1"].trainingStatus = "TRAINING"
  /\ db["p1"].train # NoHandle
  /\ containers[db["p1"].train].state = "running"
  /\ resumeT["p2"].result = "training is not paused"
  /\ status["p2"].trainingStatus = "NOT_TRAINING"

\* ------------------------------------------------------ consistency claims
\* The project's training container is gone: no handle, or a killed container.
NoLiveTraining(id) ==
  db[id].train = NoHandle \/ containers[db[id].train].state = "killed"

\* halt(id) and resumeTraining(id) awaited the runtime at the same time, the
\* runtime resumed and killed the container as asked, and both calls have
\* settled; no other control call on id is pending.
HaltResumeSettled(id) ==
  /\ "halt" \in resumeT[id].raced
  /\ "resume" \in haltT[id].raced
  /\ haltT[id].effect /\ haltT[id].result = "ok"
  /\ resumeT[id].effect /\ resumeT[id].result = "ok"
  /\ ~CtlInFlight(id)

\* C1: once a halt(id) and a resumeTraining(id) that ran concurrently have
\* both settled, the trainingStatus of id is not TRAINING while its training
\* container is killed or its handle absent.
C1_HaltResumeConsistent ==
  \A id \in Projects :
    HaltResumeSettled(id) =>
      ~(status[id].trainingStatus = "TRAINING" /\ NoLiveTraining(id))

\* C2: for every stored project with a status record, the train handle is
\* set exactly when the trainingStatus is TRAINING or PAUSED; in particular
\* it is cleared when halt succeeds.  Stated for the projects whose last
\* halt succeeded: one that is NOT_TRAINING has no train handle on its record.
C2_HandleClearedByHalt ==
  \A id \in Projects :
    (db[id].exists /\ haltT[id].result = "ok"
       /\ status[id].trainingStatus \notin {"TRAINING", "PAUSED"}) =>
      db[id].train = NoHandle


\* -------------------------------------------------------- recovery by halt
\* start(id) has failed and left the project in PREPARING or TRAINING.
Stuck(id) ==
  /\ startT[id].pc = "idle"
  /\ startT[id].result = "error"
  /\ status[id].trainingStatus \in {"PREPARING", "TRAINING"}

\* The step in which a halt(id) call settles (resolves or rejects).
HaltSettles(id) ==
  /\ haltT'[id].pc = "idle"
  /\ Called(haltT, id) \/ haltT[id].pc = "killContainer"

\* C11: a halt(id) call on a project that a failed start left in PREPARING or
\* TRAINING brings the project back to NOT_TRAINING: when the call has
\* settled, the trainingStatus is NOT_TRAINING.
C11_HaltRecovers ==
  [][\A id \in Projects :
       (Stuck(id) /\ db[id].exists /\ HaltSettles(id)) =>
         status'[id].trainingStatus = "NOT_TRAINING"]_vars


\* ------------------------------------------------ status record life cycle
\* C12: start(id) on a stored project that has no status record yet (it was
\* added to the store after the boot scan) creates the record and leaves the
\* project in PREPARING; and a status record, once created, is never removed.
C12_StartCreatesRecord ==
  [][\A id \in Projects :
       /\ (Called(startT, id) /\ db[id].exists /\ ~status[id].exists) =>
            /\ status'[id].exists
            /\ status'[id].trainingStatus = "PREPARING"
       /\ status[id].exists => status'[id].exists]_vars


\* The record addStatus is documented to create for a project.
SeededRecord(project) ==
  [exists |-> TRUE, trainingStatus |-> "NOT_TRAINING", currentEpoch |-> 0,
   lastEpoch |-> project.epochs]

\* The step of prepare() that scans the store.
BootScan == preparePc = "retrieveDatabase" /\ preparePc' # "retrieveDatabase"

\* C13: the boot scan gives every project of the store the record
\* {NOT_TRAINING, currentEpoch 0, lastEpoch = the project's epoch count} and
\* gives no record to anything else; the records stay so until the first
\* pipeline or control call; and addStatus(project), applied to any table,
\* yields exactly that record for project.id and touches no other entry.
C13_BootScanSeeds ==
  /\ [](\A id \in Projects :
          /\ (status[id].exists /\ ncalls = 0) => status[id] = SeededRecord(db[id])
          /\ \A e \in 0..MaxEpochs :
               LET project == [exists |-> TRUE, epochs |-> e, train |-> NoHandle, checkpoints |-> 0]
                   st == addStatus(status, id, project)
               IN /\ st[id] = SeededRecord(project)
                  /\ \A other \in Projects \ {id} : st[other] = status[other])
  /\ [][BootScan =>
          \A id \in Projects :
            IF db[id].exists THEN status'[id] = SeededRecord(db[id])
            ELSE ~status'[id].exists]_vars

C13_Witness ==
  /\ preparePc = "pull1"
  /\ \E id \in Projects : db[id].exists /\ status[id] = SeededRecord(db[id])
                           /\ status[id].lastEpoch = MaxEpochs
  /\ \E id \in Projects : ~db[id].exists /\ ~status[id].exists


\* ------------------------------------------------------ checkpoint polling
\* The step in which updateCheckpoints(id) is called and completes.
PollCompletes(id) == pollT'[id].tick # pollT[id].tick /\ pollT'[id].result = "ok"

\* C14: updateCheckpoints(id) is idempotent.  The call writes what PollWrite
\* gives for the reported epoch; applied twice with the same report, to any
\* table, it gives the same table as applied once; and a call whose report is
\* absent (0), or is the epoch a previous call already wrote, changes nothing.
C14_PollIdempotent ==
  /\ [](\A id \in Projects : \A r \in 0..MaxEpochs :
          status[id].exists =>
            PollWrite(PollWrite(status, id, r), id, r) = PollWrite(status, id, r))
  /\ [][\A id \in Projects :
          PollCompletes(id) =>
            /\ status' = PollWrite(status, id, disk[id])
            /\ (disk[id] = 0 \/ status[id].currentEpoch = disk[id]) =>
                 status' = status]_vars

\* updateCheckpoints(id) was called twice, the second call completed, and the
\* table holds the epoch of the latest checkpoint.
C14_Witness ==
  \E id \in Projects :
    /\ pollT[id].result = "ok" /\ pollT[id].tick = FALSE
    /\ disk[id] > 0
    /\ status[id].currentEpoch = disk[id]
    /\ status[id].trainingStatus = "TRAINING"


\* -------------------------------------------------------- transition edges
\* The step in which a halt(id) call writes NOT_TRAINING.
HaltWrites(id) == haltT[id].pc = "killContainer" /\ haltT'[id].result = "ok"

\* The documented edges of trainingStatus (from, to) and who takes them.
DocumentedEdge(id, from, to) ==
  \/ from = "NOT_TRAINING" /\ to = "PREPARING" /\ Called(startT, id)
  \/ from = "PREPARING" /\ to = "TRAINING" /\ EntersTraining(id)
  \/ from = "PAUSED" /\ to = "TRAINING" /\ resumeT[id].pc = "resumeContainer"
  \/ from = "TRAINING" /\ to = "PAUSED" /\ pauseT[id].pc = "pauseContainer"
  \/ from = "TRAINING" /\ to = "NOT_TRAINING" /\ Completes(id)
  \/ to = "NOT_TRAINING" /\ HaltWrites(id)

\* C15: every change of a project's trainingStatus follows a documented edge:
\* PREPARING only from NOT_TRAINING by start, TRAINING only from PREPARING by
\* start or from PAUSED by resume, PAUSED only from TRAINING by pause,
\* NOT_TRAINING from TRAINING on completion or from any status by halt.
C15_DocumentedEdges ==
  [][\A id \in Projects :
       (status[id].exists /\ status'[id].trainingStatus # status[id].trainingStatus) =>
         DocumentedEdge(id, status[id].trainingStatus, status'[id].trainingStatus)]_vars


\* C16: checkpoint polling changes currentEpoch only while the project is
\* TRAINING: an updateCheckpoints(id) call that completes while the status is
\* NOT_TRAINING, PREPARING or PAUSED leaves currentEpoch as it was; and a
\* change of currentEpoch that is not made by polling is the reset to 0 in
\* the step that enters TRAINING.
C16_PollOnlyWhileTraining ==
  [][\A id \in Projects :
       /\ (PollCompletes(id) /\ status[id].exists
             /\ status[id].trainingStatus # "TRAINING") =>
            status'[id].currentEpoch = status[id].currentEpoch
       /\ (status[id].exists /\ ~PollCompletes(id)
             /\ status'[id].currentEpoch # status[id].currentEpoch) =>
            EntersTraining(id) /\ status'[id].currentEpoch = 0]_vars


\* ----------------------------------------------------------- export claims
\* The export container run of call k is in progress.
ExportRunning(k) == expT[k].pc = "exportCheckpoint"

\* Call k is between setting and clearing the mark of its checkpoint.
InBracket(k) ==
  expT[k].pc \in {"writeParameterFile", "exportCheckpoint", "saveExport",
                  "updateCheckpointStatus(false)"}

\* The step in which an awaited step of export call k rejects.
ExportFails(k) == expT[k].pc # "idle" /\ expT'[k].result = "error"

\* C17: the in-use mark brackets the export container run, also when export
\* calls on the same checkpoint overlap: while the container run of an export
\* of checkpoint c is in progress c's mark is set; the mark is cleared only
\* by a call whose run and save have completed; and when a step inside the
\* bracket fails the call rejects, invokes no later step and leaves the mark.
C17_MarkBracketsRun ==
  /\ [](\A k \in ExportCalls :
          ExportRunning(k) => inUse[expT[k].id][expT[k].c])
  /\ [][\A id \in Projects, c \in Checkpoints :
          (inUse[id][c] /\ ~inUse'[id][c]) =>
            \E k \in ExportCalls :
              /\ expT[k].id = id /\ expT[k].c = c
              /\ expT[k].pc = "updateCheckpointStatus(false)"
              /\ expT'[k].result = "exported"]_vars
  /\ [][\A k \in ExportCalls :
          (InBracket(k) /\ ExportFails(k)) =>
            /\ expT'[k].pc = "idle"
            /\ expT'[k].steps = expT[k].steps
            /\ inUse' = inUse]_vars


\* ------------------------------------------------------------- boot pulls
\* C18: when the readiness state is READY all five images have been pulled to
\* completion; at most one pull is in flight at any moment; and the pull of
\* an image has begun only if the pull of the image before it has completed.
C18_PullsSerialized ==
  /\ trainer_state = "READY" =>
       \A i \in 1..Len(DocumentedPulls) : pull[DocumentedPulls[i]] = "done"
  /\ Cardinality({i \in Images : pull[i] = "inflight"}) <= 1
  /\ \A i \in 2..Len(DocumentedPulls) :
       pull[DocumentedPulls[i]] # "none" => pull[DocumentedPulls[i - 1]] = "done"

C18_Witness ==
  /\ pull[TRAIN_IMAGE] = "inflight"
  /\ pull[DATASET_IMAGE] = "done" /\ pull[METRICS_IMAGE] = "done"
  /\ pull[EXPORT_IMAGE] = "none" /\ pull[TEST_IMAGE] = "none"
  /\ trainer_state = "TRAINER_PULL"


\* ----------------------------------------------------------- independence
\* A step of start, halt, pauseTraining, resumeTraining or updateCheckpoints
\* invoked for project id (the call itself or one of its continuations).
StepFor(id) ==
  \/ startT'[id] # startT[id]
  \/ haltT'[id] # haltT[id]
  \/ pauseT'[id] # pauseT[id]
  \/ resumeT'[id] # resumeT[id]
  \/ pollT'[id] # pollT[id]

\* A step of export or of test.
PipelineStep == expT' # expT \/ testT' # testT

\* C19: a step of start, halt, pauseTraining, resumeTraining or
\* updateCheckpoints invoked for project A leaves the status record and the
\* stored train handle of every other project B as they were, whatever else
\* is in flight; and a step of export or of test changes no status record.
C19_ProjectsIndependent ==
  [][/\ \A A \in Projects : \A B \in Projects \ {A} :
          StepFor(A) => /\ status'[B] = status[B]
                        /\ db'[B].train = db[B].train
     /\ PipelineStep => status' = status]_vars

C19_Witness ==
  /\ status["p1"].trainingStatus = "TRAINING"
  /\ db["p1"].train # NoHandle
  /\ status["p2"].trainingStatus = "PREPARING"
  /\ db["p2"].train = NoHandle
  /\ \E k \in ExportCalls : expT[k].result = "exported"


\* ------------------------------------------------------- the final persist
\* C20: the record that start(id) persists in its final step is the store's
\* record of that moment with only the train handle cleared: what was
\* recorded on the project during the run (the handle at launch, the
\* checkpoints) is not replaced by the copy start fetched in its first step.
C20_PersistKeepsStore ==
  [][\A id \in Projects :
       Completes(id) => db'[id] = [db[id] EXCEPT !.train = NoHandle]]_vars

====
